---- MODULE Spec2Model ----
(***************************************************************************)
(* The credit ledger of the SaaS backend: one Account (the User document   *)
(* with credits / totalCreditsUsed / totalCreditsPurchased), the           *)
(* Transaction collection, and the HTTP handlers and webhook handlers that *)
(* read and write them.  Every handler is a sequence of atomic store       *)
(* operations (one per awaited Mongoose call); the local computation       *)
(* between two store operations is folded into the step that follows it.   *)
(* A slot is one request being served; several slots run concurrently.     *)
(***************************************************************************)
EXTENDS Integers, Sequences, FiniteSets, TLC

(***************************************************************************)
(* Bounds of the model.                                                    *)
(***************************************************************************)
\* number of request slots, i.e. how many requests may be in flight at once
NSlots == 2
\* cap on the number of persisted Transaction documents
MaxTx == 3
\* cap on the recipients of one bulk send (the route allows 1..100)
MaxRecipients == 2
\* cap on the token counts that are priced
MaxTokens == 2100
\* cap on the number of requests the server receives
MaxRequests == 4
\* the deployment's DEFAULT_CREDITS (parseInt(process.env.DEFAULT_CREDITS) || 10):
\* the credits of a new account
DEFAULT_CREDITS == 3

(***************************************************************************)
(* Program constants.                                                      *)
(***************************************************************************)
\* Math.ceil(prompt.length / 4) + 500: the estimated output tokens
EstimatedOutputTokens == 500
\* checkCredits(1): one credit per single SMS / email
SendCost == 1

Slots == 1..NSlots

(***************************************************************************)
(* Pricing (config/ai.js).                                                 *)
(***************************************************************************)
\* getProviderForModel: the provider whose models table holds the model
getProviderForModel(model) ==
  CASE model \in {"gpt-4", "gpt-3.5-turbo"} -> "openai"
    [] model = "claude-3-sonnet" -> "anthropic"
    [] OTHER -> "null"

isModelAvailable(model) == getProviderForModel(model) # "null"

\* costPerToken in millionths of a USD: 0.00003, 0.000002, 0.000015
costPerTokenMicro(model) ==
  CASE model = "gpt-4" -> 30
    [] model = "gpt-3.5-turbo" -> 2
    [] model = "claude-3-sonnet" -> 15
    [] OTHER -> 0

\* ceiling of a / b for a >= 0, b > 0
CeilDiv(a, b) == (a + b - 1) \div b

\* tokens * costPerToken * 100 is computed in IEEE doubles; for these token
\* counts (all those up to 20000) the double product of an exact integer
\* result lands just above the integer, so Math.ceil yields one more.
FloatExcess(tokens, model) ==
  \/ model = "gpt-4" /\ tokens \in {1000, 2000, 4000, 8000, 16000, 19000}
  \/ model = "claude-3-sonnet" /\ tokens \in {2000, 4000, 8000, 16000}

Max(a, b) == IF a >= b THEN a ELSE b

\* calculateCredits(tokens, model) = Math.max(1, Math.ceil(usdCost * 100))
calculateCredits(tokens, model) ==
  IF ~isModelAvailable(model) THEN 1
  ELSE Max(1, CeilDiv(tokens * costPerTokenMicro(model), 10000)
              + (IF FloatExcess(tokens, model) THEN 1 ELSE 0))

\* estimatedTokens = Math.ceil(prompt.length / 4) + 500
estimatedTokens(promptLen) == CeilDiv(promptLen, 4) + EstimatedOutputTokens

(***************************************************************************)
(* The Transaction schema (models/Transaction.js).                         *)
(***************************************************************************)
TransactionTypes == {"credit_purchase", "credit_usage", "subscription", "refund", "bonus"}
TransactionPackages == {"basic", "premium", "enterprise", "custom", "null"}
AiUsageRequestTypes == {"text", "image", "code", "analysis", "chat", "null"}

\* schema validation run by save(): enum of type, min 0 of amount and credits,
\* enum of package and of aiUsage.requestType
ValidTransaction(doc) ==
  /\ doc.type \in TransactionTypes
  /\ doc.amount >= 0
  /\ doc.credits >= 0
  /\ doc.package \in TransactionPackages
  /\ doc.requestType \in AiUsageRequestTypes

\* a new Transaction document with the schema defaults
NewTransaction(type, status, amount, credits) ==
  [type |-> type, status |-> status, amount |-> amount, credits |-> credits,
   package |-> "null", requestType |-> "null", tokens |-> 0,
   isRefunded |-> FALSE, refundAmount |-> 0, totalSent |-> 0,
   failedAt |-> 0, failureReason |-> "null", completedAt |-> 0]

(***************************************************************************)
(* State.                                                                  *)
(***************************************************************************)
VARIABLES
  user,   \* the stored User document: credits, totalCreditsUsed, totalCreditsPurchased
  txs,    \* the stored Transaction documents, in creation order
  intents,\* Stripe's payment intents, by the index of their Transaction
  req,    \* per slot: the request being served, its position and its local variables
  started,\* the number of requests received so far
  last    \* the request that responded in the step just taken (Idle when none did)

vars == <<user, txs, intents, req, started, last>>

\* Date.now(): time is counted in requests received, from 1 (0 stands for a
\* date that is not set)
Now == started + 1

NoTx == NewTransaction("null", "null", 0, 0)
NoUser == [credits |-> 0, totalCreditsUsed |-> 0, totalCreditsPurchased |-> 0]

\* an idle slot
Idle ==
  [kind |-> "none", pc |-> "idle", user |-> NoUser, tx |-> 0, txSnap |-> NoTx,
   model |-> "null", requestType |-> "null", channel |-> "null",
   amount |-> 0, n |-> 0, valid |-> 0, i |-> 0, sent |-> 0, errs |-> 0,
   providerCalls |-> 0, debited |-> 0, credited |-> 0, txSaved |-> FALSE,
   resp |-> "none", remaining |-> 0]

\* the state after registration: the User document with its schema defaults,
\* and the welcome-bonus Transaction
Init ==
  /\ user = [credits |-> DEFAULT_CREDITS, totalCreditsUsed |-> 0,
             totalCreditsPurchased |-> 0]
  /\ txs = << [NewTransaction("bonus", "completed", 0, DEFAULT_CREDITS)
                 EXCEPT !.completedAt = 1] >>
  /\ intents = [id \in 1..MaxTx |-> "none"]
  /\ req = [r \in Slots |-> Idle]
  /\ started = 0
  /\ last = Idle

InFlight(r) == req[r].pc # "idle"
Quiescent == \A r \in Slots : ~InFlight(r)

\* a request is taken by the lowest idle slot (slots are interchangeable)
Free(r) ==
  /\ started < MaxRequests
  /\ started' = started + 1
  /\ req[r].pc = "idle"
  /\ \A q \in Slots : q < r => req[q].pc # "idle"

\* the number of in-flight requests that may still persist a new Transaction
Appenders == Cardinality({r \in Slots : InFlight(r) /\ req[r].kind \in {"ai", "grant"}})
RoomForTx == Len(txs) + Appenders < MaxTx

\* the handler of slot r responds: the slot is free again, and last holds the
\* request as it ended (rec) with its response
Respond(r, rec, resp) ==
  /\ req' = [req EXCEPT ![r] = Idle]
  /\ last' = [rec EXCEPT !.pc = "done", !.resp = resp]

\* the handler of slot r moves on to its next store operation
Continue(r, rec) ==
  /\ req' = [req EXCEPT ![r] = rec]
  /\ last' = Idle

\* a request in flight takes a step: no request arrives
NoArrival == UNCHANGED started

(***************************************************************************)
(* POST /api/ai/generate (routes/ai.js).                                   *)
(***************************************************************************)
PromptLengths == {4, 4000}
RequestTypes == {"chat", "text_generation"}
UsageModels == {"gpt-4", "gpt-3.5-turbo"}
ProviderTokens == {600, 2000}

\* the check left out
InsufficientForNever(credits, required) == FALSE

\* the check with the comparison off by one
InsufficientForOffByOne(credits, required) == credits + 1 < required

\* req.user.credits < requiredCredits
InsufficientFor(credits, required) == credits < required

\* authenticateToken reads the User document (req.user); of the snapshot the
\* model keeps the paths the handler uses afterwards: credits, and for the
\* handlers that save() the document the counter they modify
authenticateToken(stored, kind) ==
  [credits |-> stored.credits,
   totalCreditsUsed |-> IF kind = "ai" THEN stored.totalCreditsUsed ELSE 0,
   totalCreditsPurchased |-> 0]

\* authenticateToken, then the estimate of the cost and its check against
\* the snapshot
AIStart(r) ==
  /\ Free(r)
  /\ RoomForTx
  /\ \E model \in UsageModels, len \in PromptLengths :
       LET required == calculateCredits(estimatedTokens(len), model)
           rec == [Idle EXCEPT !.kind = "ai", !.user = authenticateToken(user, "ai"),
                               !.model = model, !.amount = required]
       IN IF InsufficientFor(rec.user.credits, required)
          THEN Respond(r, rec, "InsufficientCredits")
          ELSE Continue(r, [rec EXCEPT !.pc = "provider"])
  /\ UNCHANGED <<user, txs, intents>>

\* userSchema.methods.deductCredits on the request's snapshot: the new values
\* of the two modified paths, which save() writes with $set
deductCredits(doc, amount) ==
  [doc EXCEPT !.credits = doc.credits - amount,
              !.totalCreditsUsed = doc.totalCreditsUsed + amount]

\* save() of a User document whose credits and totalCreditsUsed were modified
SaveDebit(stored, doc) ==
  [stored EXCEPT !.credits = doc.credits, !.totalCreditsUsed = doc.totalCreditsUsed]

\* the handler with the debit of the estimate moved before the provider call
AIProviderFailsCharged(r) ==
  /\ req[r].kind = "ai" /\ req[r].pc = "provider"
  /\ NoArrival
  /\ user' = SaveDebit(user, deductCredits(req[r].user, req[r].amount))
  /\ Respond(r, [req[r] EXCEPT !.providerCalls = @ + 1], "ProviderError")
  /\ UNCHANGED <<txs, intents>>

\* callRealAI throws: the catch block answers 500
AIProviderFails(r) ==
  /\ req[r].kind = "ai" /\ req[r].pc = "provider"
  /\ NoArrival
  /\ Respond(r, [req[r] EXCEPT !.providerCalls = @ + 1], "ProviderError")
  /\ UNCHANGED <<user, txs, intents>>

\* callRealAI returns: the actual cost is deducted from the snapshot and saved
\* (deductCredits throws when the snapshot does not cover it)
AIProviderReturns(r) ==
  /\ req[r].kind = "ai" /\ req[r].pc = "provider"
  /\ NoArrival
  /\ \E tokens \in ProviderTokens :
       LET rec == [req[r] EXCEPT !.providerCalls = @ + 1, !.n = tokens,
                                 !.amount = calculateCredits(tokens, req[r].model)]
       IN IF rec.user.credits < rec.amount
          THEN /\ Respond(r, rec, "DebitFailed")
               /\ UNCHANGED <<user, txs, intents>>
          ELSE LET doc == deductCredits(rec.user, rec.amount) IN
               /\ user' = SaveDebit(user, doc)
               /\ Continue(r, [rec EXCEPT !.pc = "txsave", !.user = doc,
                                          !.debited = rec.amount])
               /\ UNCHANGED <<txs, intents>>

\* new Transaction({type: 'credit_usage', ...}).save(), then the response
\* with remainingCredits: req.user.credits - actualCredits.  The request's
\* requestType is first used here, so the model draws it here.
AITxSave(r) ==
  /\ req[r].kind = "ai" /\ req[r].pc = "txsave"
  /\ NoArrival
  /\ \E rt \in RequestTypes :
     LET rec == [req[r] EXCEPT !.requestType = rt]
         doc == [NewTransaction("credit_usage", "completed", 0, rec.amount)
                   EXCEPT !.requestType = rec.requestType, !.tokens = rec.n,
                          !.completedAt = Now]
     IN IF ValidTransaction(doc)
        THEN /\ txs' = Append(txs, doc)
             /\ Respond(r, [rec EXCEPT !.txSaved = TRUE,
                                       !.remaining = rec.user.credits - rec.amount],
                        "ok")
        ELSE /\ Respond(r, rec, "ServerError")
             /\ UNCHANGED txs
  /\ UNCHANGED <<user, intents>>

(***************************************************************************)
(* POST /api/campaigns/sms/send and /email/send (routes/campaigns.js).     *)
(***************************************************************************)
Channels == {"sms", "email"}

\* User.findByIdAndUpdate(id, {$inc: {credits: -n, totalCreditsUsed: n}}):
\* one atomic update of the stored document, without a condition on credits
IncDebit(stored, n) ==
  [stored EXCEPT !.credits = @ - n, !.totalCreditsUsed = @ + n]

\* the type the handler gives its Transaction
SendTransactionType(channel, bulk) ==
  CASE channel = "sms" /\ ~bulk -> "sms_usage"
    [] channel = "email" /\ ~bulk -> "email_usage"
    [] channel = "sms" /\ bulk -> "sms_bulk_usage"
    [] OTHER -> "email_bulk_usage"

\* authenticateToken, then checkCredits(1), then the phone / email validation
SendStart(r) ==
  /\ Free(r)
  /\ \E addressValid \in BOOLEAN :
       LET rec == [Idle EXCEPT !.kind = "send", !.user = authenticateToken(user, "send"),
                               !.amount = SendCost]
       IN IF InsufficientFor(rec.user.credits, SendCost)
          THEN Respond(r, rec, "InsufficientCredits")
          ELSE IF ~addressValid
          THEN Respond(r, rec, "BadRequest")
          ELSE Continue(r, [rec EXCEPT !.pc = "provider"])
  /\ UNCHANGED <<user, txs, intents>>

\* sendSMS / sendEmail throws: the catch block answers 500
SendProviderFails(r) ==
  /\ req[r].kind = "send" /\ req[r].pc = "provider"
  /\ NoArrival
  /\ Respond(r, [req[r] EXCEPT !.providerCalls = @ + 1], "ProviderError")
  /\ UNCHANGED <<user, txs, intents>>

\* sendSMS / sendEmail returns: one credit is debited with $inc
SendProviderReturns(r) ==
  /\ req[r].kind = "send" /\ req[r].pc = "provider"
  /\ NoArrival
  /\ user' = IncDebit(user, SendCost)
  /\ Continue(r, [req[r] EXCEPT !.providerCalls = @ + 1, !.pc = "txsave",
                                !.debited = SendCost, !.sent = 1])
  /\ UNCHANGED <<txs, intents>>

\* new Transaction({type: 'sms_usage', credits: -1, ...}).save(), then the
\* response with creditsRemaining: req.user.credits - 1.  The SMS and the
\* email handler differ in the Transaction type alone, so the model draws
\* the channel here.
SendTxSave(r) ==
  /\ req[r].kind = "send" /\ req[r].pc = "txsave"
  /\ NoArrival
  /\ \E channel \in Channels :
     LET rec == [req[r] EXCEPT !.channel = channel]
         doc == [NewTransaction(SendTransactionType(rec.channel, FALSE), "completed",
                                0, -SendCost)
                   EXCEPT !.completedAt = Now]
     IN IF ValidTransaction(doc)
        THEN /\ txs' = Append(txs, doc)
             /\ Respond(r, [rec EXCEPT !.txSaved = TRUE,
                                       !.remaining = rec.user.credits - SendCost],
                        "ok")
        ELSE /\ Respond(r, rec, "ServerError")
             /\ UNCHANGED txs
  /\ UNCHANGED <<user, intents>>

(***************************************************************************)
(* POST /api/campaigns/sms/bulk and /email/bulk.                           *)
(***************************************************************************)
\* authenticateToken, the check of recipients.length against the snapshot,
\* and the validation of the recipients (valid of the n are kept)
BulkStart(r) ==
  /\ Free(r)
  /\ \E n \in 1..MaxRecipients :
       \E valid \in 0..n :
         LET rec == [Idle EXCEPT !.kind = "bulk", !.user = authenticateToken(user, "bulk"),
                                 !.n = n, !.valid = valid]
         IN IF InsufficientFor(rec.user.credits, n)
            THEN Respond(r, [rec EXCEPT !.amount = n], "InsufficientCredits")
            ELSE IF valid = 0
            THEN Respond(r, rec, "BadRequest")
            ELSE Continue(r, [rec EXCEPT !.pc = "sending"])
  /\ UNCHANGED <<user, txs, intents>>

\* the loop leaving at the first send that throws
BulkSendOneStopsOnError(r) ==
  /\ req[r].kind = "bulk" /\ req[r].pc = "sending"
  /\ NoArrival
  /\ req[r].i < req[r].valid
  /\ \E delivered \in BOOLEAN :
       Continue(r, [req[r] EXCEPT !.i = IF delivered THEN @ + 1 ELSE req[r].valid,
                                  !.providerCalls = @ + 1,
                                  !.sent = IF delivered THEN @ + 1 ELSE @,
                                  !.errs = IF delivered THEN @ ELSE @ + 1])
  /\ UNCHANGED <<user, txs, intents>>

\* one iteration of the loop of sendBulkSMS / sendBulkEmail: the send to the
\* next recipient succeeds (results.push) or throws (errors.push)
BulkSendOne(r) ==
  /\ req[r].kind = "bulk" /\ req[r].pc = "sending"
  /\ NoArrival
  /\ req[r].i < req[r].valid
  /\ \E delivered \in BOOLEAN :
       Continue(r, [req[r] EXCEPT !.i = @ + 1, !.providerCalls = @ + 1,
                                  !.sent = IF delivered THEN @ + 1 ELSE @,
                                  !.errs = IF delivered THEN @ ELSE @ + 1])
  /\ UNCHANGED <<user, txs, intents>>

\* what sendBulkSMS / sendBulkEmail returns after the loop
bulkResult(rec) ==
  [success |-> rec.errs = 0, totalSent |-> rec.sent, totalErrors |-> rec.errs]

\* creditsUsed = result.totalSent, debited with $inc
BulkDebit(r) ==
  /\ req[r].kind = "bulk" /\ req[r].pc = "sending"
  /\ NoArrival
  /\ req[r].i = req[r].valid
  /\ user' = IncDebit(user, bulkResult(req[r]).totalSent)
  /\ Continue(r, [req[r] EXCEPT !.pc = "txsave",
                                !.debited = bulkResult(req[r]).totalSent])
  /\ UNCHANGED <<txs, intents>>

\* new Transaction({type: 'sms_bulk_usage', credits: -creditsUsed, ...}).save(),
\* then the response with creditsRemaining: req.user.credits - creditsUsed
BulkTxSave(r) ==
  /\ req[r].kind = "bulk" /\ req[r].pc = "txsave"
  /\ NoArrival
  /\ \E channel \in Channels :
     LET rec == [req[r] EXCEPT !.channel = channel]
         doc == [NewTransaction(SendTransactionType(rec.channel, TRUE), "completed",
                                0, -rec.sent)
                   EXCEPT !.totalSent = rec.sent, !.completedAt = Now]
     IN IF ValidTransaction(doc)
        THEN /\ txs' = Append(txs, doc)
             /\ Respond(r, [rec EXCEPT !.txSaved = TRUE,
                                       !.remaining = rec.user.credits - rec.sent],
                        "ok")
        ELSE /\ Respond(r, rec, "ServerError")
             /\ UNCHANGED txs
  /\ UNCHANGED <<user, intents>>

(***************************************************************************)
(* POST /api/payments/create-payment-intent (routes/payments.js).          *)
(***************************************************************************)
\* creditPackages: credits, bonus and price (in cents) of each package
creditPackages ==
  [basic      |-> [credits |-> 100,  bonus |-> 0,    price |-> 999],
   premium    |-> [credits |-> 500,  bonus |-> 100,  price |-> 3999],
   enterprise |-> [credits |-> 1000, bonus |-> 300,  price |-> 6999],
   mega       |-> [credits |-> 2500, bonus |-> 1000, price |-> 14999]]

\* the packages requested in the model
RequestedPackages == {"premium", "mega"}

\* packageInfo.credits + (packageInfo.bonus || 0)
creditsGranted(packageName) ==
  creditPackages[packageName].credits + creditPackages[packageName].bonus

\* the Stripe customer and payment intent are created, then the pending
\* Transaction is saved; a Stripe error or a validation error answers 500
CreateIntent(r) ==
  /\ Free(r)
  /\ RoomForTx
  /\ \E packageName \in RequestedPackages, stripeOk \in BOOLEAN :
       LET rec == [Idle EXCEPT !.kind = "intent", !.amount = creditsGranted(packageName),
                               !.errs = IF stripeOk THEN 0 ELSE 1]
           doc == [NewTransaction("credit_purchase", "pending",
                                  creditPackages[packageName].price,
                                  creditsGranted(packageName))
                     EXCEPT !.package = packageName]
       IN IF stripeOk /\ ValidTransaction(doc)
          THEN /\ txs' = Append(txs, doc)
               /\ intents' = [intents EXCEPT ![Len(txs) + 1] = "open"]
               /\ Respond(r, [rec EXCEPT !.tx = Len(txs) + 1, !.txSaved = TRUE], "ok")
          ELSE /\ Respond(r, rec, "ServerError")
               /\ UNCHANGED <<txs, intents>>
  /\ UNCHANGED user

(***************************************************************************)
(* Settlement: the Stripe webhook and POST /confirm-payment.               *)
(***************************************************************************)
\* the payment-intent ids an event or a request may carry: the intent of the
\* purchase Transaction with that index, or an intent that has no Transaction
IntentIds == 1..MaxTx

\* Stripe: the customer's payment succeeds (also after an earlier failure)
PaymentSucceeds(id) ==
  /\ intents[id] \in {"open", "failed"}
  /\ intents' = [intents EXCEPT ![id] = IF intents[id] = "open" THEN "succeeded"
                                        ELSE "succeededAfterFailure"]
  /\ last' = Idle
  /\ UNCHANGED <<user, txs, req, started>>

\* Stripe: the customer's payment fails; the intent stays open for a retry
PaymentFails(id) ==
  /\ intents[id] = "open"
  /\ intents' = [intents EXCEPT ![id] = "failed"]
  /\ last' = Idle
  /\ UNCHANGED <<user, txs, req, started>>

\* Stripe has a payment_intent.succeeded event to deliver (at least once);
\* an intent without a Transaction is one whose Transaction was never saved
SucceededAtStripe(id) == intents[id] \in {"succeeded", "succeededAfterFailure"}
SuccessEventFor(id) == SucceededAtStripe(id) \/ intents[id] = "none"

\* Stripe has a payment_intent.payment_failed event to deliver (at least once,
\* possibly after the success event)
FailureEventFor(id) == intents[id] \in {"failed", "succeededAfterFailure", "none"}

\* Transaction.findOne({'paymentProvider.paymentIntentId': id}): its index, 0 for null
findByIntent(id) ==
  IF id <= Len(txs) /\ txs[id].type = "credit_purchase" THEN id ELSE 0

\* addCredits without the update of totalCreditsPurchased
addCreditsBalanceOnly(doc, amount) == [doc EXCEPT !.credits = doc.credits + amount]

\* userSchema.methods.addCredits on a loaded document
addCredits(doc, amount) ==
  [doc EXCEPT !.credits = doc.credits + amount,
              !.totalCreditsPurchased = doc.totalCreditsPurchased + amount]

\* save() of a User document whose credits and totalCreditsPurchased were modified
SaveCredit(stored, doc) ==
  [stored EXCEPT !.credits = doc.credits,
                 !.totalCreditsPurchased = doc.totalCreditsPurchased]

\* User.findById for a handler that will call addCredits
findUserForCredit(stored) ==
  [credits |-> stored.credits, totalCreditsUsed |-> 0,
   totalCreditsPurchased |-> stored.totalCreditsPurchased]

\* the guard without the check of the status
SuccessSkipsUnknownOnly(t) == t = 0

\* the guard of handlePaymentSuccess: !transaction || status === 'completed'
SuccessSkips(t) == t = 0 \/ txs[t].status = "completed"

\* transactionSchema.methods.markCompleted, saved
markCompleted(all, t) ==
  [all EXCEPT ![t].status = "completed", ![t].completedAt = Now]

\* transactionSchema.methods.markFailed(reason) on the loaded document, saved:
\* save() writes the modified paths (status only when the loaded status was
\* another one)
markFailed(all, t, loaded, reason) ==
  [all EXCEPT ![t].status = IF loaded.status = "failed" THEN @ ELSE "failed",
              ![t].failedAt = Now,
              ![t].failureReason = reason]

\* handlePaymentSuccess: the Transaction is looked up and its status checked
WebhookSuccessStart(r) ==
  /\ Free(r)
  /\ \E id \in IntentIds :
       /\ SuccessEventFor(id)
       /\ LET t == findByIntent(id)
              rec == [Idle EXCEPT !.kind = "webhookSuccess", !.tx = t]
          IN IF SuccessSkips(t)
             THEN Respond(r, rec, "noop")
             ELSE Continue(r, [rec EXCEPT !.pc = "findUser", !.txSnap = txs[t]])
  /\ UNCHANGED <<user, txs, intents>>

\* User.findById(transaction.user)
WebhookSuccessFindUser(r) ==
  /\ req[r].kind = "webhookSuccess" /\ req[r].pc = "findUser"
  /\ NoArrival
  /\ Continue(r, [req[r] EXCEPT !.pc = "saveUser", !.user = findUserForCredit(user)])
  /\ UNCHANGED <<user, txs, intents>>

\* user.addCredits(transaction.credits)
WebhookSuccessSaveUser(r) ==
  /\ req[r].kind = "webhookSuccess" /\ req[r].pc = "saveUser"
  /\ NoArrival
  /\ LET doc == addCredits(req[r].user, req[r].txSnap.credits) IN
     /\ user' = SaveCredit(user, doc)
     /\ Continue(r, [req[r] EXCEPT !.pc = "saveTx", !.user = doc,
                                   !.credited = req[r].txSnap.credits])
  /\ UNCHANGED <<txs, intents>>

\* transaction.markCompleted()
WebhookSuccessSaveTx(r) ==
  /\ req[r].kind = "webhookSuccess" /\ req[r].pc = "saveTx"
  /\ NoArrival
  /\ txs' = markCompleted(txs, req[r].tx)
  /\ Respond(r, req[r], "ok")
  /\ UNCHANGED <<user, intents>>

\* the guard without the check of the status
FailureSkipsUnknownOnly(t) == t = 0

\* the guard of handlePaymentFailure: !transaction || status !== 'pending'
FailureSkips(t) == t = 0 \/ txs[t].status # "pending"

\* handlePaymentFailure: the Transaction is looked up and its status checked
WebhookFailureStart(r) ==
  /\ Free(r)
  /\ \E id \in IntentIds :
       /\ FailureEventFor(id)
       /\ LET t == findByIntent(id)
              rec == [Idle EXCEPT !.kind = "webhookFailure", !.tx = t]
          IN IF FailureSkips(t)
             THEN Respond(r, rec, "noop")
             ELSE Continue(r, [rec EXCEPT !.pc = "markFailed", !.txSnap = txs[t]])
  /\ UNCHANGED <<user, txs, intents>>

\* transaction.markFailed(reason)
WebhookFailureSave(r) ==
  /\ req[r].kind = "webhookFailure" /\ req[r].pc = "markFailed"
  /\ NoArrival
  /\ txs' = markFailed(txs, req[r].tx, req[r].txSnap, "Pagamento falhou")
  /\ Respond(r, req[r], "ok")
  /\ UNCHANGED <<user, intents>>

\* the guard of confirm-payment: transaction.status === 'completed'
ConfirmRejects(t) == txs[t].status = "completed"

\* POST /confirm-payment: the Transaction is looked up and its status checked
ConfirmStart(r) ==
  /\ Free(r)
  /\ \E id \in IntentIds :
       LET t == findByIntent(id)
           rec == [Idle EXCEPT !.kind = "confirm", !.tx = t]
       IN IF t = 0
          THEN Respond(r, rec, "NotFound")
          ELSE IF ConfirmRejects(t)
          THEN Respond(r, rec, "AlreadyProcessed")
          ELSE Continue(r, [rec EXCEPT !.pc = "stripe", !.txSnap = txs[t]])
  /\ UNCHANGED <<user, txs, intents>>

\* stripe.paymentIntents.retrieve answers 'succeeded': User.findById
ConfirmFindUser(r) ==
  /\ req[r].kind = "confirm" /\ req[r].pc = "stripe"
  /\ NoArrival
  /\ SucceededAtStripe(req[r].tx)
  /\ Continue(r, [req[r] EXCEPT !.pc = "saveUser", !.user = findUserForCredit(user)])
  /\ UNCHANGED <<user, txs, intents>>

\* stripe.paymentIntents.retrieve answers another status: transaction.markFailed
ConfirmMarkFailed(r) ==
  /\ req[r].kind = "confirm" /\ req[r].pc = "stripe"
  /\ NoArrival
  /\ ~SucceededAtStripe(req[r].tx)
  /\ txs' = markFailed(txs, req[r].tx, req[r].txSnap, "Pagamento nao foi bem-sucedido")
  /\ Respond(r, req[r], "PaymentNotConfirmed")
  /\ UNCHANGED <<user, intents>>

\* user.addCredits(transaction.credits)
ConfirmSaveUser(r) ==
  /\ req[r].kind = "confirm" /\ req[r].pc = "saveUser"
  /\ NoArrival
  /\ LET doc == addCredits(req[r].user, req[r].txSnap.credits) IN
     /\ user' = SaveCredit(user, doc)
     /\ Continue(r, [req[r] EXCEPT !.pc = "saveTx", !.user = doc,
                                   !.credited = req[r].txSnap.credits])
  /\ UNCHANGED <<txs, intents>>

\* transaction.markCompleted(), then the response
ConfirmSaveTx(r) ==
  /\ req[r].kind = "confirm" /\ req[r].pc = "saveTx"
  /\ NoArrival
  /\ txs' = markCompleted(txs, req[r].tx)
  /\ Respond(r, req[r], "ok")
  /\ UNCHANGED <<user, intents>>

(***************************************************************************)
(* PUT /api/admin/transactions/:id/refund (routes/admin.js).               *)
(***************************************************************************)
\* the amounts (in cents) a refund request may carry; 0 stands for no amount
RefundAmounts == {0, 20000}

\* transactionSchema.methods.processRefund, saved
processRefund(all, t, amount) ==
  [all EXCEPT ![t].isRefunded = TRUE,
              ![t].refundAmount = IF amount # 0 THEN amount ELSE all[t].amount,
              ![t].status = "refunded"]

\* Transaction.findById(id); the admin names a purchase, or an id that is
\* no Transaction
RefundStart(r) ==
  /\ Free(r)
  /\ \E id \in IntentIds :
       LET t == findByIntent(id)
           rec == [Idle EXCEPT !.kind = "refund", !.tx = t] IN
       IF t = 0
       THEN Respond(r, rec, "NotFound")
       ELSE Continue(r, [rec EXCEPT !.pc = "populate", !.txSnap = txs[t]])
  /\ UNCHANGED <<user, txs, intents>>

\* the checks without the check of the status
refundCheckRefundedOnly(tx) == IF tx.isRefunded THEN "AlreadyRefunded" ELSE "ok"

\* the checks of the refund handler, in their order: status !== 'completed'
\* answers 400 "only completed transactions can be refunded", then
\* refund.isRefunded answers 400 "already refunded"
refundCheck(tx) ==
  IF tx.status # "completed" THEN "NotCompleted"
  ELSE IF tx.isRefunded THEN "AlreadyRefunded"
  ELSE "ok"

\* .populate('user'), then the checks of status and refund.isRefunded
RefundPopulate(r) ==
  /\ req[r].kind = "refund" /\ req[r].pc = "populate"
  /\ NoArrival
  /\ LET rec == [req[r] EXCEPT !.user = [NoUser EXCEPT !.credits = user.credits]] IN
     IF refundCheck(rec.txSnap) # "ok"
     THEN Respond(r, rec, refundCheck(rec.txSnap))
     ELSE Continue(r, [rec EXCEPT !.pc = "refundSave"])
  /\ UNCHANGED <<user, txs, intents>>

\* transaction.credits > 0 && transaction.user.credits >= transaction.credits
ClawsBack(tx, doc) == tx.credits > 0 /\ doc.credits >= tx.credits

\* transaction.processRefund(refundAmount, reason, refundTransactionId); the
\* response follows at once when no credits are taken back
RefundSave(r) ==
  /\ req[r].kind = "refund" /\ req[r].pc = "refundSave"
  /\ NoArrival
  /\ \E amount \in RefundAmounts :
       /\ txs' = processRefund(txs, req[r].tx, amount)
       /\ IF ClawsBack(req[r].txSnap, req[r].user)
          THEN Continue(r, [req[r] EXCEPT !.pc = "clawback", !.amount = amount])
          ELSE Respond(r, [req[r] EXCEPT !.amount = amount], "ok")
  /\ UNCHANGED <<user, intents>>

\* transaction.user.credits -= transaction.credits; transaction.user.save()
RefundClawback(r) ==
  /\ req[r].kind = "refund" /\ req[r].pc = "clawback"
  /\ NoArrival
  /\ user' = [user EXCEPT !.credits = req[r].user.credits - req[r].txSnap.credits]
  /\ Respond(r, [req[r] EXCEPT !.debited = req[r].txSnap.credits], "ok")
  /\ UNCHANGED <<txs, intents>>

(***************************************************************************)
(* POST /api/payments/admin/add-credits and PUT /api/admin/users/:id.      *)
(***************************************************************************)
\* the credits an admin grants (isInt min 1)
GrantAmounts == {5}
\* the credits an admin sets (isInt min 0)
AdminCredits == {1}

\* User.findById(userId)
GrantStart(r) ==
  /\ Free(r)
  /\ RoomForTx
  /\ \E amount \in GrantAmounts :
       Continue(r, [Idle EXCEPT !.kind = "grant", !.pc = "saveUser",
                                !.amount = amount, !.user = findUserForCredit(user)])
  /\ UNCHANGED <<user, txs, intents>>

\* user.addCredits(credits)
GrantSaveUser(r) ==
  /\ req[r].kind = "grant" /\ req[r].pc = "saveUser"
  /\ NoArrival
  /\ LET doc == addCredits(req[r].user, req[r].amount) IN
     /\ user' = SaveCredit(user, doc)
     /\ Continue(r, [req[r] EXCEPT !.pc = "txsave", !.user = doc,
                                   !.credited = req[r].amount])
  /\ UNCHANGED <<txs, intents>>

\* new Transaction({type: 'bonus', ...}).save(), then the response
GrantTxSave(r) ==
  /\ req[r].kind = "grant" /\ req[r].pc = "txsave"
  /\ NoArrival
  /\ LET doc == [NewTransaction("bonus", "completed", 0, req[r].amount)
                  EXCEPT !.completedAt = Now] IN
     IF ValidTransaction(doc)
     THEN /\ txs' = Append(txs, doc)
          /\ Respond(r, [req[r] EXCEPT !.txSaved = TRUE], "ok")
     ELSE /\ Respond(r, req[r], "ServerError")
          /\ UNCHANGED txs
  /\ UNCHANGED <<user, intents>>

\* User.findByIdAndUpdate(id, {credits: v}, {runValidators: true})
AdminUpdate(r) ==
  /\ Free(r)
  /\ \E v \in AdminCredits :
       /\ user' = [user EXCEPT !.credits = v]
       /\ Respond(r, [Idle EXCEPT !.kind = "adminUpdate", !.amount = v,
                                  !.user = [NoUser EXCEPT !.credits = user.credits]],
                  "ok")
  /\ UNCHANGED <<txs, intents>>

(***************************************************************************)
(* The specifications.                                                     *)
(***************************************************************************)
\* a request arrives
Start(r) ==
  \/ AIStart(r)
  \/ SendStart(r)
  \/ BulkStart(r)
  \/ CreateIntent(r)
  \/ WebhookSuccessStart(r)
  \/ WebhookFailureStart(r)
  \/ ConfirmStart(r)
  \/ RefundStart(r)
  \/ GrantStart(r)
  \/ AdminUpdate(r)

\* a request in flight performs its next store operation
Step(r) ==
  \/ AIProviderFails(r)
  \/ AIProviderReturns(r)
  \/ AITxSave(r)
  \/ SendProviderFails(r)
  \/ SendProviderReturns(r)
  \/ SendTxSave(r)
  \/ BulkSendOne(r)
  \/ BulkDebit(r)
  \/ BulkTxSave(r)
  \/ WebhookSuccessFindUser(r)
  \/ WebhookSuccessSaveUser(r)
  \/ WebhookSuccessSaveTx(r)
  \/ WebhookFailureSave(r)
  \/ ConfirmFindUser(r)
  \/ ConfirmMarkFailed(r)
  \/ ConfirmSaveUser(r)
  \/ ConfirmSaveTx(r)
  \/ RefundPopulate(r)
  \/ RefundSave(r)
  \/ RefundClawback(r)
  \/ GrantSaveUser(r)
  \/ GrantTxSave(r)

\* the payment provider acts
Stripe == \E id \in IntentIds : PaymentSucceeds(id) \/ PaymentFails(id)

Next == (\E r \in Slots : Start(r) \/ Step(r)) \/ Stripe

\* requests are served concurrently
Spec == Init /\ [][Next]_vars

\* requests are served one after another
NextSeq == (\E r \in Slots : (Quiescent /\ Start(r)) \/ Step(r)) \/ Stripe

SpecSeq == Init /\ [][NextSeq]_vars

\* the server process stops and is restarted: the requests in flight are
\* abandoned where they stand, the stored documents stay as they are
Crash ==
  /\ ~Quiescent
  /\ req' = [r \in Slots |-> Idle]
  /\ last' = Idle
  /\ UNCHANGED <<user, txs, intents, started>>

NextCrash == NextSeq \/ Crash

\* requests are served one after another by a server that may crash
SpecCrash == Init /\ [][NextCrash]_vars

\* the models that are priced: those of AI_PROVIDERS and one that is unknown
PricedModels == {"gpt-4", "gpt-3.5-turbo", "claude-3-sonnet", "unknown-model"}

\* a call of calculateCredits with its result
Priced(tokens, model) ==
  [Idle EXCEPT !.kind = "pricing", !.pc = "priced", !.model = model,
               !.n = tokens, !.amount = calculateCredits(tokens, model)]

InitPricing ==
  /\ user = [credits |-> DEFAULT_CREDITS, totalCreditsUsed |-> 0,
             totalCreditsPurchased |-> 0]
  /\ txs = << >>
  /\ intents = [id \in 1..MaxTx |-> "none"]
  /\ req = [r \in Slots |-> Idle]
  /\ started = 0
  /\ \E model \in PricedModels : last = Priced(0, model)

\* calculateCredits is called for the next token count
PriceNext ==
  /\ last.n < MaxTokens
  /\ last' = Priced(last.n + 1, last.model)
  /\ UNCHANGED <<user, txs, intents, req, started>>

\* calculateCredits applied to every token count up to MaxTokens, per model
SpecPricing == InitPricing /\ [][PriceNext]_vars

(***************************************************************************)
(* The claims.                                                             *)
(***************************************************************************)
UsageKinds == {"ai", "send", "bulk"}
SettlementKinds == {"webhookSuccess", "confirm"}

\* C1: the stored balance is >= 0 after every operation, in every
\* interleaving of concurrent debits and credits.
C1_BalanceNeverNegative == user.credits >= 0

C3_SequentialWebhookCreditsOnce ==
  [][/\ \A r \in Slots :
          (/\ req[r].kind = "webhookSuccess" /\ req[r].pc = "saveUser"
           /\ req'[r].pc = "saveTx")
          => /\ txs[req[r].tx].status # "completed"
             /\ user'.credits = user.credits + txs[req[r].tx].credits
     /\ (last'.kind = "webhookSuccess" /\ last'.tx # 0 /\ last'.resp = "ok")
        => /\ txs'[last'.tx].status = "completed"
           /\ last'.credited = txs[last'.tx].credits
           /\ user' = user
     /\ (last'.kind = "webhookSuccess" /\ last'.tx # 0 /\ last'.resp = "noop")
        => /\ txs[last'.tx].status = "completed"
           /\ user' = user
           /\ txs' = txs
    ]_vars

\* a second delivery was answered as a no-op after the first one credited
\* the premium purchase: the Account holds the welcome credits and the 600
C3_Witness ==
  /\ last.kind = "webhookSuccess" /\ last.resp = "noop" /\ last.tx # 0
  /\ txs[last.tx].credits = 600
  /\ user.totalCreditsPurchased = 600
  /\ user.credits = DEFAULT_CREDITS + 600

\* C4: under overlapping settlements of one purchase Transaction the Account
\* is credited at most once: no two settlement requests in flight for the
\* same Transaction have both added its credits, the one on top of the other.
C4_ConcurrentSettlementCreditsOnce ==
  \A r1, r2 \in Slots :
    (/\ r1 # r2
     /\ req[r1].kind \in SettlementKinds /\ req[r2].kind \in SettlementKinds
     /\ req[r1].tx = req[r2].tx
     /\ req[r1].credited > 0 /\ req[r2].credited > 0)
    => req[r1].user.credits = req[r2].user.credits

\* C5: at every quiescent point totalCreditsPurchased - totalCreditsUsed
\* equals credits.
C5_CountersMatchBalance ==
  Quiescent => user.totalCreditsPurchased - user.totalCreditsUsed = user.credits

\* C6: every change of the balance is matched by a persisted Transaction:
\* a request that has answered after debiting or crediting the Account, or
\* after setting its credits to another value, has saved its Transaction.
C6_BalanceChangeHasTransaction ==
  (/\ last.pc = "done"
   /\ \/ last.debited > 0
      \/ last.credited > 0 /\ last.kind = "grant"
      \/ last.kind = "adminUpdate" /\ last.amount # last.user.credits)
  => last.txSaved

\* the request that arrives in this step, as it stands after the step
ArrivedRequest ==
  IF last'.pc = "done" THEN last'
  ELSE req'[CHOOSE r \in Slots : req[r].pc = "idle" /\ req'[r].pc # "idle"]

\* the estimated cost the handler checks against the balance
EstimatedCost(rec) == IF rec.kind = "bulk" THEN rec.n ELSE rec.amount

\* C7: a usage request whose estimated cost exceeds the balance it reads on
\* arrival is rejected with InsufficientCredits, has made no provider call,
\* and leaves the Account unchanged.
C7_AdmissionRejectsUncovered ==
  [][(/\ started' # started
      /\ ArrivedRequest.kind \in UsageKinds
      /\ EstimatedCost(ArrivedRequest) > user.credits)
     => /\ ArrivedRequest.resp = "InsufficientCredits"
        /\ ArrivedRequest.providerCalls = 0
        /\ user' = user
        /\ txs' = txs
    ]_vars

\* an AI request estimated at 5 credits was rejected at balance 3
C7_Witness ==
  /\ last.kind = "ai" /\ last.resp = "InsufficientCredits"
  /\ last.amount = 5 /\ last.providerCalls = 0
  /\ user.credits = 3

C10_BulkDebitsSentAndRecords ==
  (last.kind = "bulk" /\ last.pc = "done" /\ last.providerCalls > 0)
  => /\ last.debited = last.sent
     /\ last.txSaved
     /\ txs[Len(txs)].totalSent = last.sent

\* C11: creating a payment intent for a catalog package creates one pending
\* Transaction whose credits are the package's credits plus its bonus, and
\* does not credit the Account: a create-payment-intent request that got its
\* intent from Stripe has saved that Transaction.
C11_IntentCreatesPendingTransaction ==
  (last.kind = "intent" /\ last.pc = "done" /\ last.errs = 0)
  => /\ last.txSaved
     /\ txs[last.tx].status = "pending"
     /\ txs[last.tx].credits = last.amount
     /\ last.credited = 0

AllowedTransitions ==
  {<<"pending", "completed">>, <<"pending", "failed">>,
   <<"pending", "cancelled">>, <<"completed", "refunded">>}

\* C14: the status of a Transaction only moves along pending -> completed,
\* pending -> failed, pending -> cancelled or completed -> refunded.
C14_StatusTransitions ==
  [][\A t \in 1..Len(txs) :
       txs'[t].status # txs[t].status
       => <<txs[t].status, txs'[t].status>> \in AllowedTransitions
    ]_vars

\* C15: a success settlement of a Transaction that is not pending is a
\* no-op: a settlement that has credited the Account read its Transaction
\* in status pending.
C15_NonPendingSettlementNoOp ==
  \A r \in Slots :
    (req[r].kind \in SettlementKinds /\ req[r].credited > 0)
    => req[r].txSnap.status = "pending"

\* the purchase Transactions
Purchases == {t \in 1..Len(txs) : txs[t].type = "credit_purchase"}

\* C16: over any crash / retry sequence the Account is credited once per
\* Transaction: with a single purchase, the settlement that credits a
\* pending Transaction finds that the Account was not credited for it yet
\* (totalCreditsPurchased, which admin grants raise by a few credits only,
\* is below the credits of the purchase).
C16_RetryAfterCrashCreditsOnce ==
  [][\A r \in Slots :
       (/\ req[r].kind \in SettlementKinds
        /\ req[r].pc = "saveUser" /\ req'[r].pc = "saveTx"
        /\ req[r].txSnap.status = "pending"
        /\ Cardinality(Purchases) = 1)
       => user.totalCreditsPurchased < req[r].txSnap.credits
    ]_vars

C18_ClawbackBeforeRefunded ==
  \A r \in Slots :
    (req[r].kind = "refund" /\ req[r].pc = "clawback")
    => txs[req[r].tx].status = "completed"

\* C19: the transition to refunded is accepted only with a refundAmount that
\* does not exceed the Transaction's amount.
C19_RefundAmountBounded ==
  \A t \in 1..Len(txs) :
    txs[t].isRefunded => txs[t].refundAmount <= txs[t].amount

C21_AdminRequestCreatesTransaction ==
  (last.kind \in {"grant", "refund"} /\ last.resp = "ok")
  => /\ last.txSaved
     /\ txs[Len(txs)].type \in {"bonus", "refund"}

\* C22: calculateCredits returns an integer >= 1 (1 for an unknown model),
\* equal to ceil(max(1, tokens * costPerToken * 100)), and is non-decreasing
\* in tokens for a fixed model.
C22_CalculateCreditsFormula ==
  [][/\ last'.amount >= 1
     /\ ~isModelAvailable(last'.model) => last'.amount = 1
     /\ isModelAvailable(last'.model)
        => last'.amount = Max(1, CeilDiv(last'.n * costPerTokenMicro(last'.model), 10000))
     /\ last'.amount >= last.amount
    ]_vars

\* C23: a bulk send whose recipient count exceeds the balance read on
\* arrival is rejected with InsufficientCredits, reporting the count needed
\* and the balance available, before any message is sent: no provider send,
\* no Transaction, no write to the Account.
C23_BulkAdmissionRejects ==
  [][(/\ started' # started
      /\ ArrivedRequest.kind = "bulk"
      /\ ArrivedRequest.n > user.credits)
     => /\ ArrivedRequest.resp = "InsufficientCredits"
        /\ ArrivedRequest.amount = ArrivedRequest.n
        /\ ArrivedRequest.user.credits = user.credits
        /\ ArrivedRequest.providerCalls = 0 /\ ArrivedRequest.sent = 0
        /\ ~ArrivedRequest.txSaved
        /\ user' = user
        /\ txs' = txs
    ]_vars

\* a bulk send to 2 recipients was rejected at balance 1
C23_Witness ==
  /\ last.kind = "bulk" /\ last.resp = "InsufficientCredits"
  /\ last.n = 2 /\ last.providerCalls = 0
  /\ user.credits = 1

C27_CompletedAtSetOnce ==
  [][\A t \in 1..Len(txs) :
       txs[t].completedAt # 0 => txs'[t].completedAt = txs[t].completedAt
    ]_vars

C30_BulkAttemptsEveryRecipient ==
  [][\A r \in Slots :
       (req[r].kind = "bulk" /\ req[r].pc = "sending")
       => /\ req[r].sent + req[r].errs = req[r].i
          /\ req[r].providerCalls = req[r].i
          /\ req[r].i <= req[r].valid
          /\ (req'[r].pc = "sending") => req'[r].i \in {req[r].i, req[r].i + 1}
          /\ (req'[r].pc = "txsave")
             => /\ bulkResult(req[r]).totalSent + bulkResult(req[r]).totalErrors
                     = req[r].valid
                /\ req[r].providerCalls = req[r].valid
                /\ bulkResult(req[r]).success <=> (req[r].errs = 0)
                /\ req'[r].debited = bulkResult(req[r]).totalSent
    ]_vars

\* a bulk send to 2 recipients returned with one sent and one error
C30_Witness ==
  \E r \in Slots :
    /\ req[r].kind = "bulk" /\ req[r].pc = "txsave"
    /\ req[r].valid = 2 /\ req[r].providerCalls = 2
    /\ req[r].sent = 1 /\ req[r].errs = 1
    /\ req[r].debited = 1

====
